---- MODULE Spec2Model ----
(***************************************************************************)
(* Model of the payvast-chatbot-ai server (src/server.ts): the chat        *)
(* handler POST /api/chat with its retrieval (findRelevantContext), its    *)
(* hits update and its model call, and the knowledge-base CRUD and         *)
(* feedback handlers, over the knowledge_base table created by the seed    *)
(* scripts.                                                                *)
(*                                                                         *)
(* src/server.ts holds three revisions of the server.  The variable        *)
(* `revision` says which one is deployed:                                  *)
(*   1  lines   1..226  trigram similarity, composite ORDER BY,            *)
(*                      credential check, hits update not awaited          *)
(*   2  lines 227..484  to_tsquery full-text search, ORDER BY relevance,   *)
(*                      no credential check in the handler (startServer),  *)
(*                      hits update awaited                                *)
(*   3  lines 486..703  plainto_tsquery full-text search, ORDER BY         *)
(*                      relevance, credential check, hits update not       *)
(*                      awaited                                            *)
(* Revision 1 runs on the trigram table of src/unnamed/part_001, revisions *)
(* 2 and 3 on the full-text table of src/unnamed/part_002.                 *)
(*                                                                         *)
(* Texts are sequences of one-character strings, so that trimming,         *)
(* splitting and tokenising are computed and not assumed.  The attachment  *)
(* flags and URLs of an entry are not part of the state: no handler reads  *)
(* them back.                                                              *)
(***************************************************************************)
EXTENDS Integers, Sequences, FiniteSets, TLC

\* ------------------------------------------------------------------ bounds
\* Number of POST /api/chat requests of a behaviour.
MaxReq == 2
\* Number of CRUD / feedback / list requests of a behaviour.
MaxOps == 1
\* Last value of the millisecond clock read by Date.now().
MaxClock == 4
\* Number of CRUD / feedback / list requests of a behaviour that is about the
\* knowledge-base administration (AdminSpec), and of its chat requests.
MaxAdminOps == 2
MaxAdminReq == 1

\* ------------------------------------------------------- program constants
\* findRelevantContext's default maxResults.
DefaultMaxResults == 3

VARIABLES
    budget,     \* how many chat requests and how many other requests are served
    revision,   \* which revision of src/server.ts is deployed: 1, 2 or 3
    apiKey,     \* process.env.API_KEY is set
    running,    \* the process serves requests (startServer did not exit)
    store,      \* the knowledge_base table: id -> row
    now,        \* the last value Date.now() returned
    chat,       \* the POST /api/chat requests: request -> its state
    listResp,   \* the last GET /api/knowledge-base response
    lastResp,   \* the status of the last knowledge-base response
    opCount,    \* CRUD / feedback / list requests served so far
    \* App and ChatInterface (src/App.tsx, src/unnamed/part_000)
    view,       \* App's view: "chat" or "kb"
    messages,   \* App's messages
    mountId,    \* which mount of ChatInterface is on screen (counts remounts)
    userInput,  \* ChatInterface's userInput
    isLoading,  \* ChatInterface's isLoading
    inFlight,   \* the /api/chat fetches not yet settled, with the mount that sent them
    sent,       \* user messages submitted so far
    \* KnowledgeBaseManager (src/components/KnowledgeBaseManager.tsx)
    entries,        \* entries
    kbIsLoading,    \* isLoading
    kbError,        \* error: a message, or "" for null
    isFormVisible,  \* isFormVisible
    isEditing,      \* isEditing
    currentEntry,   \* the id of currentEntry, 0 for a new entry
    kbRequests,     \* the fetch / save / delete requests not yet settled
    kbDone,         \* requests the manager has sent so far
    \* normalizePersian of the seed script (src/scripts/seed.ts)
    scriptText, \* the argument
    passes      \* the results of applying normalizePersian once, twice, ...

serverVars ==
    <<budget, revision, apiKey, running, store, now, chat, listResp, lastResp, opCount>>

chatUiVars == <<view, messages, mountId, userInput, isLoading, inFlight, sent>>

kbUiVars ==
    <<entries, kbIsLoading, kbError, isFormVisible, isEditing, currentEntry, kbRequests,
      kbDone>>

scriptVars == <<scriptText, passes>>

clientVars == <<chatUiVars, kbUiVars, scriptVars>>

vars == <<serverVars, clientVars>>

\* -------------------------------------------------------------------- texts
Sp == " "

\* JavaScript's String.prototype.trim, left part.
RECURSIVE TrimLeft(_)
TrimLeft(s) ==
    IF s = <<>> THEN s
    ELSE IF Head(s) = Sp THEN TrimLeft(Tail(s)) ELSE s

\* JavaScript's String.prototype.trim, right part.
RECURSIVE TrimRight(_)
TrimRight(s) ==
    IF s = <<>> THEN s
    ELSE IF s[Len(s)] = Sp THEN TrimRight(SubSeq(s, 1, Len(s) - 1)) ELSE s

\* JavaScript's String.prototype.trim.
Trim(s) == TrimRight(TrimLeft(s))

\* The maximal runs of non-whitespace characters of a text, in order.
RECURSIVE WordsFrom(_, _)
WordsFrom(s, cur) ==
    IF s = <<>> THEN (IF cur = <<>> THEN <<>> ELSE <<cur>>)
    ELSE IF Head(s) = Sp
         THEN (IF cur = <<>> THEN <<>> ELSE <<cur>>) \o WordsFrom(Tail(s), <<>>)
         ELSE WordsFrom(Tail(s), Append(cur, Head(s)))

Words(s) == WordsFrom(s, <<>>)

\* JavaScript's s.split(/\s+/) on a trimmed text: its words, or [''] when empty.
SplitWs(s) == IF s = <<>> THEN << <<>> >> ELSE Words(s)

\* JavaScript's parts.join(' | ').
RECURSIVE JoinBar(_)
JoinBar(parts) ==
    IF parts = <<>> THEN <<>>
    ELSE IF Len(parts) = 1 THEN parts[1]
    ELSE parts[1] \o <<" ", "|", " ">> \o JoinBar(Tail(parts))

SeqToSet(s) == {s[i] : i \in 1..Len(s)}

\* ---------------------------------------------------------- JavaScript values
\* A value of a JSON request body field.
Undefined == [t |-> "undefined", s |-> <<>>, n |-> 0]
Null == [t |-> "null", s |-> <<>>, n |-> 0]
Str(s) == [t |-> "string", s |-> s, n |-> 0]
Num(n) == [t |-> "number", s |-> <<>>, n |-> n]

\* JavaScript's ToBoolean: !v is ~Truthy(v).
Truthy(v) ==
    CASE v.t = "undefined" -> FALSE
      [] v.t = "null" -> FALSE
      [] v.t = "string" -> v.s # <<>>
      [] v.t = "number" -> v.n # 0
      [] OTHER -> TRUE

IsString(v) == v.t = "string"


\* ------------------------------------------------ relevance (database side)
\* pg_trgm: the trigrams of a text, each word padded with two blanks before
\* and one after.
WordTrigrams(w) ==
    LET padded == <<Sp, Sp>> \o w \o <<Sp>>
    IN  {SubSeq(padded, i, i + 2) : i \in 1..(Len(padded) - 2)}

Trigrams(s) == UNION {WordTrigrams(w) : w \in SeqToSet(Words(s))}

\* pg_trgm's similarity(a, b) as the fraction <<shared, total>>.
similarity(a, b) ==
    LET ta == Trigrams(a)
        tb == Trigrams(b)
        total == Cardinality(ta \cup tb)
    IN  IF total = 0 THEN <<0, 1>> ELSE <<Cardinality(ta \cap tb), total>>

\* The document_vector column kept by the tsvector_update trigger:
\* to_tsvector('simple', question || ' ' || answer), as the sequence of lexemes.
document_vector(row) == Words(row.question \o <<Sp>> \o row.answer)

\* The lexemes of to_tsquery('simple', queryText), queryText being words joined
\* by ' | ' (revision 2), and of plainto_tsquery('simple', userQuestion).
TsQueryLexemes(text) == SeqToSet(Words(text)) \ {<<"|">>}

\* ts_rank(document_vector, query): grows with the occurrences of the query's
\* lexemes in the document; counted here, as the fraction <<count, 1>>.
ts_rank(row, lexemes) ==
    LET doc == document_vector(row)
    IN  <<Cardinality({i \in 1..Len(doc) : doc[i] \in lexemes}), 1>>

\* Comparison of two fractions with positive denominators.
FracGT(a, b) == a[1] * b[2] > b[1] * a[2]
FracEQ(a, b) == a[1] * b[2] = b[1] * a[2]

\* The text revision 2 hands to to_tsquery.
QueryText(userQuestion) == JoinBar(SplitWs(Trim(userQuestion)))

\* The relevance column of the SELECT of findRelevantContext.
Relevance(rv, row, userQuestion) ==
    CASE rv = 1 -> similarity(row.question, userQuestion)
      [] rv = 2 -> ts_rank(row, TsQueryLexemes(QueryText(userQuestion)))
      [] OTHER  -> ts_rank(row, TsQueryLexemes(userQuestion))

\* The WHERE clause of the SELECT of findRelevantContext.
WhereRelevant(rv, row, userQuestion) ==
    CASE rv = 1 ->
            \* similarity(question, q) > 0.1
            LET f == similarity(row.question, userQuestion)
            IN  10 * f[1] > f[2]
      [] rv = 2 ->
            \* document_vector @@ to_tsquery: some lexeme occurs
            \E l \in TsQueryLexemes(QueryText(userQuestion)) :
                l \in SeqToSet(document_vector(row))
      [] OTHER ->
            \* document_vector @@ plainto_tsquery: every lexeme occurs
            /\ TsQueryLexemes(userQuestion) # {}
            /\ \A l \in TsQueryLexemes(userQuestion) :
                l \in SeqToSet(document_vector(row))

NetLikes(row) == row.likes - row.dislikes

\* ORDER BY of findRelevantContext: row a may stand before row b.
\* Revision 1: relevance DESC, (likes - dislikes) DESC, hits DESC.
\* Revisions 2 and 3: relevance DESC.
RelevantOrder(rv, a, b) ==
    IF rv = 1
    THEN \/ FracGT(a.relevance, b.relevance)
         \/ /\ FracEQ(a.relevance, b.relevance)
            /\ \/ NetLikes(a) > NetLikes(b)
               \/ /\ NetLikes(a) = NetLikes(b)
                  /\ a.hits >= b.hits
    ELSE \/ FracGT(a.relevance, b.relevance)
         \/ FracEQ(a.relevance, b.relevance)

\* The sequences listing every element of S once.
Orderings(S) ==
    {f \in [1..Cardinality(S) -> S] : \A i, j \in DOMAIN f : i # j => f[i] # f[j]}

\* Mutant of Limit: the LIMIT clause is dropped.
Limit_None(rows, n) == rows

\* LIMIT n.
Limit(rows, n) == SubSeq(rows, 1, IF Len(rows) < n THEN Len(rows) ELSE n)

\* The row of the table with the computed relevance column added.
WithRelevance(rv, row, userQuestion) ==
    [id |-> row.id, question |-> row.question, answer |-> row.answer,
     type |-> row.type, system |-> row.system,
     likes |-> row.likes, dislikes |-> row.dislikes, hits |-> row.hits,
     relevance |-> Relevance(rv, row, userQuestion)]

\* Every result the database may give for the SELECT of findRelevantContext:
\* the matching rows in any order the ORDER BY allows, cut by LIMIT.
SelectRelevant(rv, st, userQuestion, maxResults) ==
    LET ids == {id \in DOMAIN st : WhereRelevant(rv, st[id], userQuestion)}
        rowsOf(f) == [i \in DOMAIN f |-> WithRelevance(rv, st[f[i]], userQuestion)]
        sorted(rows) == \A i, j \in DOMAIN rows :
                            i < j => RelevantOrder(rv, rows[i], rows[j])
    IN  {Limit(rowsOf(f), maxResults) : f \in {g \in Orderings(ids) : sorted(rowsOf(g))}}


\* ------------------------------------------------------------------ inputs
ReqIds == 1..MaxReq

\* Ids: "kb-<n>"; the seeded entries are kb-1 and kb-2, created ones kb-<now>.
Ids == 1..MaxClock

\* The question field of a POST /api/chat body.
ChatQuestions ==
    {Undefined, Num(5), Str(<<>>), Str(<<Sp>>), Str(<<"a">>), Str(<<"a", Sp, "b">>)}

\* The texts the generative model may return.
ModelTexts == {"m1", "m2"}

\* The message of the error a failed model call raises (provider detail).
ProviderDetail == "provider: quota exceeded"

\* ------------------------------------------------------------------- store
Row(id, question, answer, type, system, likes, dislikes, hits) ==
    [id |-> id, question |-> question, answer |-> answer, type |-> type,
     system |-> system, likes |-> likes, dislikes |-> dislikes, hits |-> hits]

\* The table after seeding (knowledge-base.json is not part of the sources):
\* two entries, the less popular one with the shorter question.
SeedStore ==
    [id \in {1, 2} |->
        IF id = 1
        THEN Row(1, <<"a">>, <<"x">>, <<"g">>, <<"s">>, 0, 0, 0)
        ELSE Row(2, <<"a", "b">>, <<"x">>, <<"g">>, <<"s">>, 3, 1, 0)]

\* --------------------------------------------------------------- responses
NoResp == [status |-> 0, kind |-> "none", error |-> "", answer |-> "", sources |-> <<>>]

\* res.status(status).json({ error })
JsonError(status, error) ==
    [status |-> status, kind |-> "error", error |-> error, answer |-> "", sources |-> <<>>]

\* res.json({ answer, sources })
JsonAnswer(answer, sources) ==
    [status |-> 200, kind |-> "answer", error |-> "", answer |-> answer, sources |-> sources]

MsgQuestionRequired == "Question is required and must be a string."
MsgNotConfigured == "Server is not configured with an API key."
MsgAiFailed == "Failed to get a response from the AI assistant."

\* ----------------------------------------------------- findRelevantContext
\* The answers the database may give to the SELECT: a failure, or any result
\* the query allows.
DbAnswers(rv, st, userQuestion, maxResults) ==
    {[ok |-> FALSE, rows |-> <<>>]}
    \cup {[ok |-> TRUE, rows |-> rows] :
            rows \in SelectRelevant(rv, st, userQuestion, maxResults)}

\* Mutant of NoQuery: the guard tests the empty text only, not the trimmed one.
NoQuery_EmptyOnly(rv, userQuestion) == userQuestion = <<>>

\* The guard before the query: !userQuestion || !userQuestion.trim() in
\* revisions 1 and 3, !queryText in revision 2.
NoQuery(rv, userQuestion) ==
    IF rv = 2
    THEN QueryText(userQuestion) = <<>>
    ELSE userQuestion = <<>> \/ Trim(userQuestion) = <<>>

\* Mutant of findRelevantContext: the catch block raises the store error again.
findRelevantContext_Rethrow(rv, userQuestion, maxResults, db) ==
    IF NoQuery(rv, userQuestion)
    THEN [rows |-> <<>>, accessed |-> FALSE, failed |-> FALSE, raised |-> FALSE]
    ELSE IF db.ok
    THEN [rows |-> db.rows, accessed |-> TRUE, failed |-> FALSE, raised |-> FALSE]
    ELSE [rows |-> <<>>, accessed |-> TRUE, failed |-> TRUE, raised |-> TRUE]

\* findRelevantContext(userQuestion, maxResults), given the database's answer db
\* to its query: the rows returned, whether the store was accessed, and whether
\* the call raised.
findRelevantContext(rv, userQuestion, maxResults, db) ==
    IF NoQuery(rv, userQuestion)
    THEN [rows |-> <<>>, accessed |-> FALSE, failed |-> FALSE, raised |-> FALSE]
    ELSE IF db.ok
    THEN [rows |-> db.rows, accessed |-> TRUE, failed |-> FALSE, raised |-> FALSE]
    ELSE [rows |-> <<>>, accessed |-> TRUE, failed |-> TRUE, raised |-> FALSE]

\* ------------------------------------------------------------ POST /api/chat
IdleChat ==
    [pc |-> "idle", question |-> Undefined, queries |-> 0, dbFailed |-> FALSE,
     contextEntries |-> <<>>, contextText |-> [placeholder |-> FALSE, blocks |-> <<>>],
     hitsUpd |-> "none", modelRes |-> "none", modelText |-> "", resp |-> NoResp]

\* contextText: the entries as "Q: ... A: ..." blocks, or the placeholder
\* "No relevant context found." when nothing was retrieved.
ContextText(contextEntries) ==
    IF Len(contextEntries) > 0
    THEN [placeholder |-> FALSE,
          blocks |-> [i \in 1..Len(contextEntries) |->
                        <<contextEntries[i].question, contextEntries[i].answer>>]]
    ELSE [placeholder |-> TRUE, blocks |-> <<>>]

\* Mutant of QuestionRejected: the typeof test is missing.
QuestionRejected_Falsy(question) == ~Truthy(question)

\* if (!question || typeof question !== 'string')
QuestionRejected(question) == ~Truthy(question) \/ ~IsString(question)

\* Whether the handler checks the credential (if (!apiKey) return 500).
CredentialChecked(rv) == rv # 2

\* Whether the handler awaits the hits update before it calls the model.
HitsAwaited(rv) == rv = 2

\* Mutant of HitsIssued: the handler issues no hits update.
HitsIssued_Never(contextEntries) == FALSE

\* if (contextEntries.length > 0): the hits update is issued, before the model
\* is called.
HitsIssued(contextEntries) == Len(contextEntries) > 0

\* contextEntries.map(e => e.id)
EntryIds(rows) == {rows[i].id : i \in 1..Len(rows)}

\* Mutant of HitsUpdate: the WHERE clause is missing.
HitsUpdate_AllRows(st, entryIds) ==
    [id \in DOMAIN st |-> [st[id] EXCEPT !.hits = @ + 1]]

\* Mutant of HitsUpdate: the update is never issued.
HitsUpdate_Skipped(st, entryIds) == st

\* Mutant of HitsUpdate: an id that matches no row is inserted with one hit.
HitsUpdate_Upsert(st, entryIds) ==
    [id \in DOMAIN st \cup entryIds |->
        IF id \in DOMAIN st
        THEN IF id \in entryIds THEN [st[id] EXCEPT !.hits = @ + 1] ELSE st[id]
        ELSE Row(id, <<>>, <<>>, <<>>, <<>>, 0, 0, 1)]

\* UPDATE knowledge_base SET hits = hits + 1 WHERE id = ANY(entryIds)
HitsUpdate(st, entryIds) ==
    [id \in DOMAIN st |->
        IF id \in entryIds THEN [st[id] EXCEPT !.hits = @ + 1] ELSE st[id]]

\* Mutant of ChatAnswer: the sources are sent in reverse order.
ChatAnswer_Reversed(text, contextEntries) ==
    JsonAnswer(text, [i \in 1..Len(contextEntries) |->
                        contextEntries[Len(contextEntries) + 1 - i]])

\* res.json({ answer: response.text, sources: contextEntries })
ChatAnswer(text, contextEntries) == JsonAnswer(text, contextEntries)

\* Mutant of ChatCatch: the error's message is sent to the client.
ChatCatch_Detail(detail) == JsonError(500, detail)

\* The catch block of the handler, for the error raised with message detail.
ChatCatch(detail) == JsonError(500, MsgAiFailed)

\* The request is received: validation, credential check, retrieval, and the
\* hits update is issued.
ChatPost(r, question) ==
    /\ running
    /\ r <= budget.chat
    /\ chat[r].pc = "idle"
    /\ IF r = 1 THEN TRUE ELSE chat[r - 1].pc # "idle"
    /\ IF QuestionRejected(question)
       THEN chat' = [chat EXCEPT ![r] = [@ EXCEPT !.pc = "done", !.question = question,
                        !.resp = JsonError(400, MsgQuestionRequired)]]
       ELSE IF CredentialChecked(revision) /\ ~apiKey
       THEN chat' = [chat EXCEPT ![r] = [@ EXCEPT !.pc = "done", !.question = question,
                        !.resp = JsonError(500, MsgNotConfigured)]]
       ELSE \E db \in DbAnswers(revision, store, question.s, DefaultMaxResults) :
            LET ctx == findRelevantContext(revision, question.s, DefaultMaxResults, db)
                got == [chat[r] EXCEPT !.question = question,
                            !.queries = IF ctx.accessed THEN 1 ELSE 0,
                            !.dbFailed = ctx.failed,
                            !.contextEntries = ctx.rows,
                            !.contextText = ContextText(ctx.rows)]
            IN  chat' = [chat EXCEPT ![r] =
                    IF ctx.raised
                    THEN [got EXCEPT !.pc = "done", !.resp = ChatCatch("db")]
                    ELSE IF HitsIssued(ctx.rows)
                    THEN [got EXCEPT !.hitsUpd = "pending",
                            !.pc = IF HitsAwaited(revision) THEN "hits" ELSE "model"]
                    ELSE [got EXCEPT !.pc = "model"]]
    /\ UNCHANGED <<clientVars, budget, revision, apiKey, running, store, now, listResp, lastResp, opCount>>

\* The database runs the hits update of request r.
HitsRun(r) ==
    /\ chat[r].hitsUpd = "pending"
    /\ store' = HitsUpdate(store, EntryIds(chat[r].contextEntries))
    /\ chat' = [chat EXCEPT ![r] = [@ EXCEPT !.hitsUpd = "applied",
                    !.pc = IF @ = "hits" THEN "model" ELSE @]]
    /\ UNCHANGED <<clientVars, budget, revision, apiKey, running, now, listResp, lastResp, opCount>>

\* The hits update of request r fails: logged by .catch when it is not awaited,
\* raised into the handler's catch block when it is.
HitsFail(r) ==
    /\ chat[r].hitsUpd = "pending"
    /\ chat' = [chat EXCEPT ![r] =
            IF chat[r].pc = "hits"
            THEN [@ EXCEPT !.hitsUpd = "failed", !.pc = "done", !.resp = ChatCatch("db")]
            ELSE [@ EXCEPT !.hitsUpd = "failed"]]
    /\ UNCHANGED <<clientVars, budget, revision, apiKey, running, store, now, listResp, lastResp, opCount>>

\* ai.models.generateContent returns with a text: the answer is sent.
ModelOk(r, text) ==
    /\ chat[r].pc = "model"
    /\ apiKey
    /\ chat' = [chat EXCEPT ![r] = [@ EXCEPT !.pc = "done", !.modelRes = "ok",
                    !.modelText = text,
                    !.resp = ChatAnswer(text, chat[r].contextEntries)]]
    /\ UNCHANGED <<clientVars, budget, revision, apiKey, running, store, now, listResp, lastResp, opCount>>

\* ai.models.generateContent fails (network, auth, quota; always with the
\* placeholder key 'INVALID_KEY'): the catch block answers.
ModelFail(r) ==
    /\ chat[r].pc = "model"
    /\ chat' = [chat EXCEPT ![r] = [@ EXCEPT !.pc = "done", !.modelRes = "fail",
                    !.resp = ChatCatch(ProviderDetail)]]
    /\ UNCHANGED <<clientVars, budget, revision, apiKey, running, store, now, listResp, lastResp, opCount>>


\* ------------------------------------------------- knowledge-base requests
\* The bodies of POST and PUT /api/knowledge-base.
BodyQuestions == {Undefined, Str(<<>>), Str(<<Sp>>), Str(<<"a">>), Str(<<"a", "b">>)}
BodyAnswers == {Undefined, Str(<<>>), Str(<<"x">>)}
BodyTypes == {Undefined, Str(<<"g">>)}
BodySystems == {Undefined, Str(<<>>), Str(<<"s">>)}

\* The fields of a body that the handlers do not destructure: absent, or the
\* id and the counters of an entry as the admin form sends them.
StaleCounter == 7

BodyExtras ==
    {[id |-> Undefined, likes |-> Undefined, dislikes |-> Undefined, hits |-> Undefined],
     [id |-> Str(<<"z">>), likes |-> Num(StaleCounter), dislikes |-> Num(StaleCounter),
      hits |-> Num(StaleCounter)]}

\* The bodies tried: every field present, or one of the required fields
\* missing or empty.
Bodies ==
    LET all == {[question |-> q, answer |-> a, type |-> t, system |-> y,
                 id |-> x.id, likes |-> x.likes, dislikes |-> x.dislikes,
                 hits |-> x.hits] :
                    q \in BodyQuestions, a \in BodyAnswers, t \in BodyTypes,
                    y \in BodySystems, x \in BodyExtras}
        falsy(b) == {f \in {"question", "answer", "type", "system"} : ~Truthy(b[f])}
    IN  {b \in all :
            \/ falsy(b) = {}
            \/ Cardinality(falsy(b)) = 1
                    /\ b.question \in {Undefined, Str(<<>>), Str(<<"a">>)}}

\* Mutant of FieldsMissing: only the question is tested.
FieldsMissing_QuestionOnly(body) == ~Truthy(body.question)

\* if (!question || !answer || !type || !system)
FieldsMissing(body) ==
    ~Truthy(body.question) \/ ~Truthy(body.answer) \/ ~Truthy(body.type)
        \/ ~Truthy(body.system)

NoList == [status |-> 0, rows |-> <<>>, answered |-> {}, applied |-> {}]

OpResp(op, id, status) == [op |-> op, id |-> id, status |-> status]

\* ORDER BY of GET /api/knowledge-base: row a may stand before row b.
\* Revision 1: (likes - dislikes) DESC, hits DESC.  Revisions 2, 3: hits DESC.
ListOrder(rv, a, b) ==
    IF rv = 1
    THEN \/ NetLikes(a) > NetLikes(b)
         \/ NetLikes(a) = NetLikes(b) /\ a.hits >= b.hits
    ELSE a.hits >= b.hits

\* Every result the database may give for SELECT * ... ORDER BY of the list.
SelectAll(rv, st) ==
    LET rowsOf(f) == [i \in DOMAIN f |-> st[f[i]]]
        sorted(rows) == \A i, j \in DOMAIN rows : i < j => ListOrder(rv, rows[i], rows[j])
    IN  {rowsOf(f) : f \in {g \in Orderings(DOMAIN st) : sorted(rowsOf(g))}}

\* GET /api/knowledge-base.  The response also records which chat requests had
\* been answered, and which hits updates had been applied, when the query ran.
ListEntries(dbOk) ==
    /\ running
    /\ opCount < budget.ops
    /\ opCount' = opCount + 1
    /\ IF dbOk
       THEN /\ \E rows \in SelectAll(revision, store) :
                listResp' = [status |-> 200, rows |-> rows,
                             answered |-> {r \in ReqIds : chat[r].pc = "done"},
                             applied |-> {r \in ReqIds : chat[r].hitsUpd = "applied"}]
            /\ lastResp' = OpResp("list", 0, 200)
       ELSE /\ listResp' = [NoList EXCEPT !.status = 500]
            /\ lastResp' = OpResp("list", 0, 500)
    /\ UNCHANGED <<clientVars, budget, revision, apiKey, running, store, now, chat>>

\* Mutant of InsertEntry: an INSERT with an id already in the table replaces
\* the row.
InsertEntry_Overwrite(rv, st, newId, body) ==
    IF rv = 2
    THEN [ok |-> FALSE, store |-> st]
    ELSE [ok |-> TRUE,
          store |-> [id \in DOMAIN st \cup {newId} |->
                        IF id = newId
                        THEN Row(newId, body.question.s, body.answer.s, body.type.s,
                                 body.system.s, 0, 0, 0)
                        ELSE st[id]]]

\* Mutant of InsertEntry: the counters of the body are inserted.
InsertEntry_FromBody(rv, st, newId, body) ==
    IF rv = 2 \/ newId \in DOMAIN st
    THEN [ok |-> FALSE, store |-> st]
    ELSE [ok |-> TRUE,
          store |-> [id \in DOMAIN st \cup {newId} |->
                        IF id = newId
                        THEN Row(newId, body.question.s, body.answer.s, body.type.s,
                                 body.system.s,
                                 IF body.likes.t = "number" THEN body.likes.n ELSE 0,
                                 IF body.dislikes.t = "number" THEN body.dislikes.n ELSE 0,
                                 IF body.hits.t = "number" THEN body.hits.n ELSE 0)
                        ELSE st[id]]]

\* The INSERT of POST /api/knowledge-base: whether it succeeds, and the table
\* after it.
\* Revisions 1 and 3 insert id = `kb-${Date.now()}` and leave the counters to
\* their column defaults (0); revision 2 gives no id, which the NOT NULL
\* primary key refuses.
InsertEntry(rv, st, newId, body) ==
    IF rv = 2 \/ newId \in DOMAIN st
    THEN [ok |-> FALSE, store |-> st]
    ELSE [ok |-> TRUE,
          store |-> [id \in DOMAIN st \cup {newId} |->
                        IF id = newId
                        THEN Row(newId, body.question.s, body.answer.s, body.type.s,
                                 body.system.s, 0, 0, 0)
                        ELSE st[id]]]

\* POST /api/knowledge-base, handled when Date.now() reads t: the clock never
\* runs backwards, and may not have advanced since the last request read it.
CreateEntry(body, dbOk, t) ==
    /\ running
    /\ opCount < budget.ops
    /\ opCount' = opCount + 1
    /\ t >= now
    /\ IF FieldsMissing(body)
       THEN /\ lastResp' = OpResp("create", 0, 400)
            /\ store' = store
            /\ now' = now
       ELSE LET after == InsertEntry(revision, store, t, body)
            IN  /\ now' = t
                /\ IF ~dbOk \/ ~after.ok
                   THEN /\ lastResp' = OpResp("create", 0, 500)
                        /\ store' = store
                   ELSE /\ lastResp' = OpResp("create", t, 201)
                        /\ store' = after.store
    /\ UNCHANGED <<clientVars, budget, revision, apiKey, running, chat, listResp>>

\* Mutant of UpdateEntry: the counters of the body are written too.
UpdateEntry_WithCounters(st, id, body) ==
    [i \in DOMAIN st |->
        IF i = id
        THEN [st[i] EXCEPT !.question = body.question.s, !.answer = body.answer.s,
                           !.type = body.type.s, !.system = body.system.s,
                           !.likes = IF body.likes.t = "number" THEN body.likes.n ELSE @,
                           !.dislikes = IF body.dislikes.t = "number"
                                        THEN body.dislikes.n ELSE @,
                           !.hits = IF body.hits.t = "number" THEN body.hits.n ELSE @]
        ELSE st[i]]

\* Mutant of UpdateEntry: an UPDATE that matches no row inserts one.
UpdateEntry_Upsert(st, id, body) ==
    [i \in DOMAIN st \cup {id} |->
        IF i = id
        THEN IF id \in DOMAIN st
             THEN [st[i] EXCEPT !.question = body.question.s, !.answer = body.answer.s,
                                !.type = body.type.s, !.system = body.system.s]
             ELSE Row(id, body.question.s, body.answer.s, body.type.s, body.system.s,
                      0, 0, 0)
        ELSE st[i]]

\* The UPDATE of PUT /api/knowledge-base/:id: WHERE id = ${id} matches the row
\* of that id, or none.
UpdateEntry(st, id, body) ==
    [i \in DOMAIN st |->
        IF i = id
        THEN [st[i] EXCEPT !.question = body.question.s, !.answer = body.answer.s,
                           !.type = body.type.s, !.system = body.system.s]
        ELSE st[i]]

\* if (result.rowCount === 0) return res.status(404)
UpdateStatus(rowCount) == IF rowCount = 0 THEN 404 ELSE 200

\* PUT /api/knowledge-base/:id
PutEntry(id, body, dbOk) ==
    /\ running
    /\ opCount < budget.ops
    /\ opCount' = opCount + 1
    /\ IF FieldsMissing(body)
       THEN /\ lastResp' = OpResp("update", id, 400)
            /\ store' = store
       ELSE IF ~dbOk
       THEN /\ lastResp' = OpResp("update", id, 500)
            /\ store' = store
       ELSE /\ lastResp' = OpResp("update", id,
                    UpdateStatus(IF id \in DOMAIN store THEN 1 ELSE 0))
            /\ store' = UpdateEntry(store, id, body)
    /\ UNCHANGED <<clientVars, budget, revision, apiKey, running, now, chat, listResp>>

\* Mutant of DeleteRow: the row stays in the table.
DeleteRow_Kept(st, id) == st

\* DELETE FROM knowledge_base WHERE id = ${id}
DeleteRow(st, id) == [i \in DOMAIN st \ {id} |-> st[i]]

\* DELETE /api/knowledge-base/:id
DeleteEntry(id, dbOk) ==
    /\ running
    /\ opCount < budget.ops
    /\ opCount' = opCount + 1
    /\ IF ~dbOk
       THEN /\ lastResp' = OpResp("delete", id, 500)
            /\ store' = store
       ELSE IF id \notin DOMAIN store
       THEN /\ lastResp' = OpResp("delete", id, 404)
            /\ store' = store
       ELSE /\ lastResp' = OpResp("delete", id, 204)
            /\ store' = DeleteRow(store, id)
    /\ UNCHANGED <<clientVars, budget, revision, apiKey, running, now, chat, listResp>>

\* Mutant of LikeRow: the vote is counted twice.
LikeRow_Twice(st, id) ==
    [i \in DOMAIN st |-> IF i = id THEN [st[i] EXCEPT !.likes = @ + 2] ELSE st[i]]

\* UPDATE knowledge_base SET likes = likes + 1 WHERE id = ${id}
LikeRow(st, id) ==
    [i \in DOMAIN st |-> IF i = id THEN [st[i] EXCEPT !.likes = @ + 1] ELSE st[i]]

\* Mutant of DislikeRow: a dislike takes one like away.
DislikeRow_TakesLike(st, id) ==
    [i \in DOMAIN st |-> IF i = id THEN [st[i] EXCEPT !.likes = @ - 1] ELSE st[i]]

\* UPDATE knowledge_base SET dislikes = dislikes + 1 WHERE id = ${id}
DislikeRow(st, id) ==
    [i \in DOMAIN st |-> IF i = id THEN [st[i] EXCEPT !.dislikes = @ + 1] ELSE st[i]]

\* The status of a feedback request whose UPDATE changed rowCount rows:
\* revision 2 checks rowCount (RETURNING *), revisions 1 and 3 do not.
FeedbackStatus(rv, rowCount) == IF rv = 2 /\ rowCount = 0 THEN 404 ELSE 200

\* POST /api/knowledge-base/:id/like
LikeEntry(id, dbOk) ==
    /\ running
    /\ opCount < budget.ops
    /\ opCount' = opCount + 1
    /\ IF ~dbOk
       THEN /\ lastResp' = OpResp("like", id, 500)
            /\ store' = store
       ELSE /\ lastResp' = OpResp("like", id,
                    FeedbackStatus(revision, IF id \in DOMAIN store THEN 1 ELSE 0))
            /\ store' = LikeRow(store, id)
    /\ UNCHANGED <<clientVars, budget, revision, apiKey, running, now, chat, listResp>>

\* POST /api/knowledge-base/:id/dislike
DislikeEntry(id, dbOk) ==
    /\ running
    /\ opCount < budget.ops
    /\ opCount' = opCount + 1
    /\ IF ~dbOk
       THEN /\ lastResp' = OpResp("dislike", id, 500)
            /\ store' = store
       ELSE /\ lastResp' = OpResp("dislike", id,
                    FeedbackStatus(revision, IF id \in DOMAIN store THEN 1 ELSE 0))
            /\ store' = DislikeRow(store, id)
    /\ UNCHANGED <<clientVars, budget, revision, apiKey, running, now, chat, listResp>>

\* ------------------------------------------------------------ specification
\* startServer of revision 2 exits when API_KEY is missing and VERCEL is set;
\* revisions 1 and 3 have no startServer and only log the missing key.
StartServer(rv, key, vercel) == ~(rv = 2 /\ ~key /\ vercel)

Started ==
    /\ revision \in {1, 2, 3}
    /\ apiKey \in BOOLEAN
    /\ \E vercel \in BOOLEAN : running = StartServer(revision, apiKey, vercel)
    /\ store = SeedStore
    /\ now = MaxClock - 1
    /\ chat = [r \in ReqIds |-> IdleChat]
    /\ listResp = NoList
    /\ lastResp = OpResp("none", 0, 0)
    /\ opCount = 0

\* The states of the browser components and of the seed script before any of
\* them runs: the values of their useState calls.
InitMessage == [author |-> "bot", kind |-> "init", req |-> 0]

AppMounted ==
    /\ view = "chat"
    /\ messages = <<InitMessage>>
    /\ mountId = 1
    /\ userInput = <<>>
    /\ isLoading = FALSE
    /\ inFlight = {}
    /\ sent = 0

\* useState<Partial<KnowledgeEntry>>({}): an entry with no field set.
EmptyEntry ==
    [id |-> 0, question |-> Undefined, answer |-> Undefined, type |-> Undefined,
     system |-> Undefined]

ManagerUnmounted ==
    /\ entries = <<>>
    /\ kbIsLoading = TRUE
    /\ kbError = ""
    /\ isFormVisible = FALSE
    /\ isEditing = FALSE
    /\ currentEntry = EmptyEntry
    /\ kbRequests = {}
    /\ kbDone = 0

ScriptIdle ==
    /\ scriptText = Undefined
    /\ passes = <<>>

NoClient == AppMounted /\ ManagerUnmounted /\ ScriptIdle

Init ==
    /\ budget = [chat |-> MaxReq, ops |-> MaxOps]
    /\ Started
    /\ NoClient

\* The same server under a load of few chat requests and more administration
\* requests.
AdminInit ==
    /\ budget = [chat |-> MaxAdminReq, ops |-> MaxAdminOps]
    /\ Started
    /\ NoClient

Next ==
    \/ \E r \in ReqIds, q \in ChatQuestions : ChatPost(r, q)
    \/ \E r \in ReqIds : HitsRun(r)
    \/ \E r \in ReqIds : HitsFail(r)
    \/ \E r \in ReqIds, text \in ModelTexts : ModelOk(r, text)
    \/ \E r \in ReqIds : ModelFail(r)
    \/ \E dbOk \in BOOLEAN : ListEntries(dbOk)
    \/ \E body \in Bodies, dbOk \in BOOLEAN, t \in Ids : CreateEntry(body, dbOk, t)
    \/ \E id \in Ids, body \in Bodies, dbOk \in BOOLEAN : PutEntry(id, body, dbOk)
    \/ \E id \in Ids, dbOk \in BOOLEAN : DeleteEntry(id, dbOk)
    \/ \E id \in Ids, dbOk \in BOOLEAN : LikeEntry(id, dbOk)
    \/ \E id \in Ids, dbOk \in BOOLEAN : DislikeEntry(id, dbOk)

Spec == Init /\ [][Next]_vars

AdminSpec == AdminInit /\ [][Next]_vars


\* The database answers every query it was sent: a pending hits update is
\* eventually run or eventually fails.
FairSpec == Spec /\ \A r \in ReqIds : WF_vars(HitsRun(r) \/ HitsFail(r))

\* ------------------------------------------- the seed script's normalizer
\* Longest text given to normalizePersian.
MaxTextLen == 4
\* How many times normalizePersian is applied in a row.
MaxPasses == 2

\* The characters of the texts: a letter, Arabic Yeh and Kaf, Persian Yeh and
\* Kaf, the zero-width non-joiner, two whitespace characters, the combining
\* hamza above, and Yeh with hamza above (the NFC composition of Arabic Yeh
\* and the combining hamza).
ArabicYeh == "U+064A"
PersianYeh == "U+06CC"
ArabicKaf == "U+0643"
PersianKaf == "U+06A9"
Zwnj == "U+200C"
Tab == "U+0009"
HamzaAbove == "U+0654"
YehWithHamza == "U+0626"

Alphabet ==
    {"a", ArabicYeh, PersianYeh, ArabicKaf, PersianKaf, Zwnj, Sp, Tab, HamzaAbove,
     YehWithHamza}

\* The characters \s matches and trim removes.
Whitespace == {Sp, Tab}

\* text.normalize('NFC'): a base character and the combining mark after it are
\* composed where Unicode has the composition.
RECURSIVE NFC(_)
NFC(s) ==
    IF Len(s) < 2 THEN s
    ELSE IF s[1] = ArabicYeh /\ s[2] = HamzaAbove
    THEN <<YehWithHamza>> \o NFC(SubSeq(s, 3, Len(s)))
    ELSE <<s[1]>> \o NFC(Tail(s))

\* .replace(/c/g, d) for a single character c.
ReplaceAll(s, c, d) == [i \in 1..Len(s) |-> IF s[i] = c THEN d ELSE s[i]]

\* .replace(/\s+/g, ' ')
RECURSIVE CollapseWhitespace(_)
CollapseWhitespace(s) ==
    IF s = <<>> THEN s
    ELSE IF s[1] \in Whitespace
    THEN IF Len(s) > 1 /\ s[2] \in Whitespace
         THEN CollapseWhitespace(Tail(s))
         ELSE <<Sp>> \o CollapseWhitespace(Tail(s))
    ELSE <<s[1]>> \o CollapseWhitespace(Tail(s))

\* .trim()
RECURSIVE TrimWhitespace(_)
TrimWhitespace(s) ==
    IF s = <<>> THEN s
    ELSE IF s[1] \in Whitespace THEN TrimWhitespace(Tail(s))
    ELSE IF s[Len(s)] \in Whitespace THEN TrimWhitespace(SubSeq(s, 1, Len(s) - 1))
    ELSE s

\* Mutant of normalizePersian: whitespace is collapsed before the zero-width
\* non-joiner is replaced.
normalizePersian_CollapseFirst(v) ==
    IF ~Truthy(v) THEN <<>>
    ELSE TrimWhitespace(
            ReplaceAll(
                CollapseWhitespace(
                    ReplaceAll(ReplaceAll(NFC(v.s), ArabicYeh, PersianYeh),
                               ArabicKaf, PersianKaf)),
                Zwnj, Sp))

\* normalizePersian(text)
normalizePersian(v) ==
    IF ~Truthy(v) THEN <<>>
    ELSE TrimWhitespace(
            CollapseWhitespace(
                ReplaceAll(
                    ReplaceAll(ReplaceAll(NFC(v.s), ArabicYeh, PersianYeh),
                               ArabicKaf, PersianKaf),
                    Zwnj, Sp)))

\* The arguments tried: null, undefined, and every text of up to MaxTextLen
\* characters.
Texts == UNION {[1..n -> Alphabet] : n \in 0..MaxTextLen}

ScriptInputs == {Undefined, Null} \cup {Str(s) : s \in Texts}

\* normalizePersian is applied to the argument, then to its own result.
Normalize ==
    /\ Len(passes) < MaxPasses
    /\ passes' = Append(passes,
            normalizePersian(IF passes = <<>> THEN scriptText
                             ELSE Str(passes[Len(passes)])))
    /\ UNCHANGED <<serverVars, chatUiVars, kbUiVars, scriptText>>

\* The server is not part of these behaviours: it serves no request.
ServerIdle ==
    /\ budget = [chat |-> 0, ops |-> 0]
    /\ revision = 1
    /\ apiKey = TRUE
    /\ running = StartServer(revision, apiKey, FALSE)
    /\ store = SeedStore
    /\ now = MaxClock - 1
    /\ chat = [r \in ReqIds |-> IdleChat]
    /\ listResp = NoList
    /\ lastResp = OpResp("none", 0, 0)
    /\ opCount = 0

ScriptInit ==
    /\ ServerIdle
    /\ AppMounted
    /\ ManagerUnmounted
    /\ scriptText \in ScriptInputs
    /\ passes = <<>>

ScriptNext == Normalize

ScriptSpec == ScriptInit /\ [][ScriptNext]_vars

\* --------------------------------------------- App and ChatInterface (browser)
\* Number of user messages submitted in a behaviour.
MaxSends == 2
\* Number of times ChatInterface is mounted in a behaviour.
MaxMounts == 2

\* const [isReady] = useState<boolean>(true): App never changes it.
isReady == TRUE

\* What the user may type into the input.
UserInputs == {<<>>, <<Sp>>, <<"a">>, <<Sp, "a">>}

\* How the fetch of /api/chat may settle: a 200 response with an answer, a 200
\* response whose answer is missing or empty, a response with a non-OK status,
\* a network failure (fetch rejects), a body that is not JSON (res.json()
\* rejects).
ChatOutcomes == {"answer", "noAnswer", "status", "network", "unparsable"}

UserMessage(req) == [author |-> "user", kind |-> "question", req |-> req]

\* The message appended when the fetch of request req settles: botMessage with
\* data.answer, or with the fixed text used when data.answer is falsy, in the
\* try block; errorMessage with the fixed connection-error text in the catch
\* block.
BotMessage(req, outcome) ==
    [author |-> "bot",
     kind |-> CASE outcome = "answer" -> "answer"
                [] outcome = "noAnswer" -> "fallback"
                [] OTHER -> "connError",
     req |-> req]

\* onChange of the input, which is disabled while isLoading || !isReady.
TypeInput(s) ==
    /\ view = "chat"
    /\ ~isLoading /\ isReady
    /\ userInput' = s
    /\ UNCHANGED <<serverVars, kbUiVars, scriptVars, view, messages, mountId, isLoading,
                   inFlight, sent>>

\* if (!trimmedInput || isLoading || !isReady) return;
SendBlocked(trimmedInput) == trimmedInput = <<>> \/ isLoading \/ ~isReady

\* handleSendMessage, up to its await: the user message is appended, the input
\* cleared, isLoading set and the fetch sent.
HandleSendMessage ==
    /\ view = "chat"
    /\ LET trimmedInput == Trim(userInput)
       IN  IF SendBlocked(trimmedInput)
           THEN UNCHANGED <<messages, userInput, isLoading, inFlight, sent>>
           ELSE /\ sent < MaxSends
                /\ messages' = Append(messages, UserMessage(sent + 1))
                /\ userInput' = <<>>
                /\ isLoading' = TRUE
                /\ inFlight' = inFlight \cup {[req |-> sent + 1, mount |-> mountId]}
                /\ sent' = sent + 1
    /\ UNCHANGED <<serverVars, kbUiVars, scriptVars, view, mountId>>

\* Mutant of FetchSettlesMessages: the catch block appends nothing.
FetchSettlesMessages_Silent(req, outcome) ==
    IF outcome \in {"answer", "noAnswer"}
    THEN Append(messages, BotMessage(req, outcome))
    ELSE messages

\* setMessages(prev => [...prev, botMessage]) of the try block, or
\* setMessages(prev => [...prev, errorMessage]) of the catch block.
FetchSettlesMessages(req, outcome) == Append(messages, BotMessage(req, outcome))

\* handleSendMessage after its await: the fetch of request q settles, a bot
\* message is appended to App's messages, and finally setIsLoading(false)
\* runs: it changes the flag of the mount that sent the request, which is the
\* one on screen only if ChatInterface was not unmounted since.
FetchSettles(q, outcome) ==
    /\ q \in inFlight
    /\ messages' = FetchSettlesMessages(q.req, outcome)
    /\ inFlight' = inFlight \ {q}
    /\ isLoading' = IF view = "chat" /\ q.mount = mountId THEN FALSE ELSE isLoading
    /\ UNCHANGED <<serverVars, kbUiVars, scriptVars, view, mountId, userInput, sent>>

\* ViewToggleButton: setView(v => v === 'chat' ? 'kb' : 'chat').  Leaving the
\* chat view unmounts ChatInterface and drops its userInput and isLoading;
\* coming back mounts a new one, with useState('') and useState(false), over
\* the messages App has kept.  (What KnowledgeBaseManager does while it is on
\* screen is the subject of ManagerSpec.)
ToggleView ==
    /\ IF view = "chat"
       THEN /\ view' = "kb"
            /\ mountId' = mountId
       ELSE /\ mountId < MaxMounts
            /\ view' = "chat"
            /\ mountId' = mountId + 1
    /\ userInput' = <<>>
    /\ isLoading' = FALSE
    /\ UNCHANGED <<serverVars, kbUiVars, scriptVars, messages, inFlight, sent>>

ChatUiInit ==
    /\ ServerIdle
    /\ AppMounted
    /\ ManagerUnmounted
    /\ ScriptIdle

ChatUiNext ==
    \/ \E s \in UserInputs : TypeInput(s)
    \/ HandleSendMessage
    \/ \E q \in inFlight, outcome \in ChatOutcomes : FetchSettles(q, outcome)
    \/ ToggleView

ChatUiSpec == ChatUiInit /\ [][ChatUiNext]_vars

\* Every fetch settles: the browser ends a request that gets no response.
FairChatUiSpec ==
    ChatUiSpec
        /\ \A req \in 1..MaxSends, mount \in 1..MaxMounts :
                WF_vars(\E outcome \in ChatOutcomes :
                            FetchSettles([req |-> req, mount |-> mount], outcome))

\* ---------------------------------------------------------------------------
\* The knowledge base manager (src/components/KnowledgeBaseManager.tsx).
\* The component is mounted with its first fetchEntries call in flight; it
\* talks to the server's table through the list, create, update and delete
\* routes.  A request in flight is a record of kbRequests; `next` is "close"
\* for the fetchEntries call that handleSave awaits before handleCloseForm.
\* ---------------------------------------------------------------------------
MaxKbRequests == 2

\* The tables the manager is opened on: two rows whose likes and hits rank
\* them the same way, the opposite way, or leave them tied.
KbStores ==
    {[id \in {1, 2} |->
        IF id = 1
        THEN Row(1, <<"b">>, <<"b">>, <<"g">>, <<"b">>, likes1, 0, 0)
        ELSE Row(2, <<"a", "b">>, <<"b">>, <<"g">>, <<"b">>, 0, 0, hits2)]
     : likes1 \in {0, 1}, hits2 \in {0, 1}}

FormFields == {"question", "answer", "system"}

FormTexts == {<<"b">>}

KbOutcomes == {"served", "dbError", "network"}

NewEntry ==
    [id |-> 0, question |-> Str(<<>>), answer |-> Str(<<>>), type |-> Str(<<"g">>),
     system |-> Str(<<>>)]

FormOf(row) ==
    [id |-> row.id, question |-> Str(row.question), answer |-> Str(row.answer),
     type |-> Str(row.type), system |-> Str(row.system)]

EntryData(entry) ==
    [question |-> entry.question, answer |-> entry.answer, type |-> entry.type,
     system |-> entry.system]

KbRequest(n, kind, id, body, next) ==
    [n |-> n, kind |-> kind, id |-> id, body |-> body, next |-> next]

ResOk(status) == status >= 200 /\ status <= 299

\* The early returns of the render: the loading indicator first, then the error.
ManagerView ==
    IF kbIsLoading THEN "loading" ELSE IF kbError # "" THEN "error" ELSE "list"

\* data.sort((a, b) => (b.hits || 0) - (a.hits || 0)): a stable sort by hits,
\* highest first.
InsertByHits(sorted, row) ==
    LET keep == {i \in 0..Len(sorted) : \A j \in 1..i : sorted[j].hits >= row.hits}
        at == CHOOSE i \in keep : \A k \in keep : k <= i
    IN  SubSeq(sorted, 1, at) \o <<row>> \o SubSeq(sorted, at + 1, Len(sorted))

RECURSIVE SortByHits(_)
SortByHits(rows) ==
    IF rows = <<>>
    THEN <<>>
    ELSE InsertByHits(SortByHits(SubSeq(rows, 1, Len(rows) - 1)), rows[Len(rows)])

CloseForm ==
    /\ isFormVisible' = FALSE
    /\ currentEntry' = EmptyEntry
    /\ isEditing' = FALSE

kbFrame == <<chatUiVars, scriptVars, budget, revision, apiKey, running, chat, opCount>>

\* handleOpenForm(entry) from a row's edit button, handleOpenForm() from the
\* add button (id 0).
HandleOpenForm(id) ==
    /\ ManagerView = "list"
    /\ ~isFormVisible
    /\ IF id = 0
       THEN /\ currentEntry' = NewEntry
            /\ isEditing' = FALSE
       ELSE /\ \E i \in 1..Len(entries) :
                    /\ entries[i].id = id
                    /\ currentEntry' = FormOf(entries[i])
            /\ isEditing' = TRUE
    /\ isFormVisible' = TRUE
    /\ UNCHANGED <<kbFrame, store, now, listResp, lastResp, entries, kbIsLoading, kbError,
                   kbRequests, kbDone>>

\* The form's cancel button.
HandleCloseForm ==
    /\ ManagerView = "list"
    /\ isFormVisible
    /\ CloseForm
    /\ UNCHANGED <<kbFrame, store, now, listResp, lastResp, entries, kbIsLoading, kbError,
                   kbRequests, kbDone>>

\* An input's onChange: setCurrentEntry({ ...currentEntry, field: value }).
EditField(field, value) ==
    /\ ManagerView = "list"
    /\ isFormVisible
    /\ currentEntry' = [currentEntry EXCEPT ![field] = Str(value)]
    /\ UNCHANGED <<kbFrame, store, now, listResp, lastResp, entries, kbIsLoading, kbError,
                   isFormVisible, isEditing, kbRequests, kbDone>>

TrimmedEmpty(v) == v.t # "string" \/ Trim(v.s) = <<>>

SaveBlocked(entryData) ==
    \/ TrimmedEmpty(entryData.question)
    \/ TrimmedEmpty(entryData.answer)
    \/ ~Truthy(entryData.type)
    \/ TrimmedEmpty(entryData.system)

\* handleSave up to its fetch: PUT /api/knowledge-base/:id when editing, POST
\* otherwise.
HandleSave ==
    /\ ManagerView = "list"
    /\ isFormVisible
    /\ IF SaveBlocked(EntryData(currentEntry))
       THEN UNCHANGED <<kbRequests, kbDone>>
       ELSE /\ kbDone < MaxKbRequests
            /\ kbDone' = kbDone + 1
            /\ kbRequests' = kbRequests \cup
                    {KbRequest(kbDone + 1, "save",
                               IF isEditing THEN currentEntry.id ELSE 0,
                               EntryData(currentEntry), "none")}
    /\ UNCHANGED <<kbFrame, store, now, listResp, lastResp, entries, kbIsLoading, kbError,
                   isFormVisible, isEditing, currentEntry>>

\* handleDelete up to its fetch; window.confirm may be declined.
HandleDelete(id, confirmed) ==
    /\ ManagerView = "list"
    /\ ~isFormVisible
    /\ id \in EntryIds(entries)
    /\ IF ~confirmed
       THEN UNCHANGED <<kbRequests, kbDone>>
       ELSE /\ kbDone < MaxKbRequests
            /\ kbDone' = kbDone + 1
            /\ kbRequests' = kbRequests \cup
                    {KbRequest(kbDone + 1, "delete", id, EntryData(EmptyEntry), "none")}
    /\ UNCHANGED <<kbFrame, store, now, listResp, lastResp, entries, kbIsLoading, kbError,
                   isFormVisible, isEditing, currentEntry>>

\* The server's reply to a save and the table it leaves: the create route for
\* id 0, the update route otherwise.
SaveReply(q, outcome, t) ==
    IF outcome = "network"
    THEN [status |-> 0, id |-> q.id, store |-> store]
    ELSE IF FieldsMissing(q.body)
    THEN [status |-> 400, id |-> q.id, store |-> store]
    ELSE IF outcome = "dbError"
    THEN [status |-> 500, id |-> q.id, store |-> store]
    ELSE IF q.id = 0
    THEN LET after == InsertEntry(revision, store, t, q.body)
         IN  IF after.ok
             THEN [status |-> 201, id |-> t, store |-> after.store]
             ELSE [status |-> 500, id |-> 0, store |-> store]
    ELSE [status |-> UpdateStatus(IF q.id \in DOMAIN store THEN 1 ELSE 0), id |-> q.id,
          store |-> UpdateEntry(store, q.id, q.body)]

\* handleSave after its fetch settled: on success fetchEntries starts and the
\* form is closed once that settles; otherwise the catch sets the error.
SaveSettles(q, outcome, t) ==
    /\ q \in kbRequests
    /\ q.kind = "save"
    /\ t >= now
    /\ LET reply == SaveReply(q, outcome, t)
       IN  /\ store' = reply.store
           /\ now' = IF q.id = 0 /\ reply.status \in {201, 500} /\ outcome = "served"
                     THEN t ELSE now
           /\ lastResp' = OpResp(IF q.id = 0 THEN "create" ELSE "update", reply.id,
                                 reply.status)
           /\ IF ResOk(reply.status)
              THEN /\ kbIsLoading' = TRUE
                   /\ kbRequests' = (kbRequests \ {q}) \cup
                            {KbRequest(q.n, "fetch", 0, EntryData(EmptyEntry), "close")}
                   /\ kbError' = kbError
              ELSE /\ kbError' = IF q.id # 0 THEN "Failed to update entry."
                                 ELSE "Failed to add entry."
                   /\ kbRequests' = kbRequests \ {q}
                   /\ kbIsLoading' = kbIsLoading
    /\ UNCHANGED <<kbFrame, listResp, entries, isFormVisible, isEditing, currentEntry,
                   kbDone>>

AfterDelete_Optimistic(es, id, ok) == SelectSeq(es, LAMBDA e : e.id # id)

\* setEntries(prev => prev.filter(entry => entry.id !== id)) after res.ok.
AfterDelete(es, id, ok) == IF ok THEN SelectSeq(es, LAMBDA e : e.id # id) ELSE es

\* handleDelete after its fetch settled.
DeleteSettles(q, outcome) ==
    /\ q \in kbRequests
    /\ q.kind = "delete"
    /\ LET status == IF outcome = "network" THEN 0
                     ELSE IF outcome = "dbError" THEN 500
                     ELSE IF q.id \notin DOMAIN store THEN 404
                     ELSE 204
       IN  /\ store' = IF status = 204 THEN DeleteRow(store, q.id) ELSE store
           /\ lastResp' = OpResp("delete", q.id, status)
           /\ entries' = AfterDelete(entries, q.id, ResOk(status))
           /\ kbError' = IF ResOk(status) THEN kbError ELSE "Failed to delete entry."
    /\ kbRequests' = kbRequests \ {q}
    /\ UNCHANGED <<kbFrame, now, listResp, kbIsLoading, isFormVisible, isEditing,
                   currentEntry, kbDone>>

\* fetchEntries after its fetch settled (setIsLoading(true) ran when it was
\* called), followed by handleCloseForm when handleSave awaited it.
FetchEntriesSettles(q, outcome) ==
    /\ q \in kbRequests
    /\ q.kind = "fetch"
    /\ IF outcome = "served"
       THEN \E rows \in SelectAll(revision, store) :
                /\ listResp' = [status |-> 200, rows |-> rows, answered |-> {},
                                applied |-> {}]
                /\ lastResp' = OpResp("list", 0, 200)
                /\ entries' = SortByHits(rows)
                /\ kbError' = kbError
       ELSE /\ listResp' = [NoList EXCEPT !.status = IF outcome = "dbError" THEN 500 ELSE 0]
            /\ lastResp' = OpResp("list", 0, IF outcome = "dbError" THEN 500 ELSE 0)
            /\ entries' = entries
            /\ kbError' = "Failed to fetch knowledge base."
    /\ kbIsLoading' = FALSE
    /\ kbRequests' = kbRequests \ {q}
    /\ IF q.next = "close"
       THEN CloseForm
       ELSE UNCHANGED <<isFormVisible, isEditing, currentEntry>>
    /\ UNCHANGED <<kbFrame, store, now, kbDone>>

ManagerMounted ==
    /\ entries = <<>>
    /\ kbIsLoading = TRUE
    /\ kbError = ""
    /\ isFormVisible = FALSE
    /\ isEditing = FALSE
    /\ currentEntry = EmptyEntry
    /\ kbRequests = {KbRequest(0, "fetch", 0, EntryData(EmptyEntry), "none")}
    /\ kbDone = 0

ManagerInit ==
    /\ budget = [chat |-> 0, ops |-> 0]
    /\ revision \in {1, 2, 3}
    /\ apiKey = TRUE
    /\ running = StartServer(revision, apiKey, FALSE)
    /\ store \in KbStores
    /\ now = MaxClock - 1
    /\ chat = [r \in ReqIds |-> IdleChat]
    /\ listResp = NoList
    /\ lastResp = OpResp("none", 0, 0)
    /\ opCount = 0
    /\ view = "kb"
    /\ messages = <<InitMessage>>
    /\ mountId = 1
    /\ userInput = <<>>
    /\ isLoading = FALSE
    /\ inFlight = {}
    /\ sent = 0
    /\ ManagerMounted
    /\ ScriptIdle

ManagerNext ==
    \/ \E id \in {0} \cup Ids : HandleOpenForm(id)
    \/ HandleCloseForm
    \/ \E field \in FormFields, value \in FormTexts : EditField(field, value)
    \/ HandleSave
    \/ \E id \in Ids, confirmed \in BOOLEAN : HandleDelete(id, confirmed)
    \/ \E q \in kbRequests, outcome \in KbOutcomes, t \in Ids : SaveSettles(q, outcome, t)
    \/ \E q \in kbRequests, outcome \in KbOutcomes : DeleteSettles(q, outcome)
    \/ \E q \in kbRequests, outcome \in KbOutcomes : FetchEntriesSettles(q, outcome)

ManagerSpec == ManagerInit /\ [][ManagerNext]_vars

\* ------------------------------------------------------------------ claims
Rows(seq) == {seq[i] : i \in 1..Len(seq)}

\* C1: in POST /api/chat the hits increment is never awaited by the request
\* path: while it is pending the request has already gone on to the model
\* call, and a failed increment never turns the response into an error (an
\* error response of a request whose increment failed comes from a failed
\* model call).
C1_NotAwaited ==
    \A r \in ReqIds :
        /\ chat[r].hitsUpd = "pending" => chat[r].pc \in {"model", "done"}
        /\ (chat[r].hitsUpd = "failed" /\ chat[r].pc = "done")
              => /\ chat[r].modelRes # "none"
                 /\ chat[r].modelRes = "ok" => chat[r].resp.status = 200

\* C2: the hits update of a chat request, when it is applied, adds exactly one
\* to the hits of each returned entry that still exists and changes nothing
\* else (no row appears), no other step of the request changes the store, and
\* a pending update is eventually applied or eventually fails.
C2_HitsOfReturned ==
    /\ [][\A r \in ReqIds :
            chat'[r] # chat[r] =>
                IF chat[r].hitsUpd = "pending" /\ chat'[r].hitsUpd = "applied"
                THEN /\ DOMAIN store' = DOMAIN store
                     /\ \A id \in DOMAIN store :
                            store'[id] =
                                IF id \in EntryIds(chat[r].contextEntries)
                                THEN [store[id] EXCEPT !.hits = store[id].hits + 1]
                                ELSE store[id]
                ELSE store' = store]_vars
    /\ \A r \in ReqIds :
            (chat[r].hitsUpd = "pending") ~> (chat[r].hitsUpd \in {"applied", "failed"})

\* C2 witness: an applied update raised the hits of a returned entry by one
\* and left an entry that was not returned at its hits.
C2_Witness ==
    \E r \in ReqIds :
        /\ chat[r].hitsUpd = "applied"
        /\ \E e \in Rows(chat[r].contextEntries) :
                e.id \in DOMAIN store /\ store[e.id].hits = e.hits + 1
        /\ \E id \in DOMAIN store \ EntryIds(chat[r].contextEntries) :
                store[id].hits = 0


\* The rows of a list response that carry the id of entry e.
ListedAs(e) == {row \in Rows(listResp.rows) : row.id = e.id}

\* C3 (as claimed): a list call issued after the response of a chat request
\* shows, for every entry of the response's sources that it lists, hits
\* increased by (at least) one over the value the request retrieved.
C3_ListAfterResponse ==
    listResp.status = 200 =>
        \A r \in listResp.answered :
            chat[r].resp.status = 200 =>
                \A e \in Rows(chat[r].resp.sources) :
                    \A row \in ListedAs(e) : row.hits >= e.hits + 1

\* C3 (amended): a list call issued after the hits update of a chat request
\* has been applied shows, for every retrieved entry it lists, hits at least
\* one above the value the request retrieved.
C3_ListAfterUpdate ==
    listResp.status = 200 =>
        \A r \in listResp.applied :
            \A e \in Rows(chat[r].contextEntries) :
                \A row \in ListedAs(e) : row.hits >= e.hits + 1

\* C3 witness: a list response that followed an applied hits update and lists
\* a retrieved entry.
C3_Witness ==
    /\ listResp.status = 200
    /\ \E r \in listResp.applied :
            \E e \in Rows(chat[r].contextEntries) :
                \E row \in ListedAs(e) : row.hits = e.hits + 1

\* C4: when the store query of findRelevantContext fails, the call returns the
\* empty list without raising: the request issues no hits update, goes on to
\* the model call with the "no relevant context" placeholder and, when that
\* call succeeds, answers 200 with the model's text and sources = [].
C4_StoreFailureDegrades ==
    \A r \in ReqIds :
        chat[r].dbFailed =>
            /\ chat[r].contextEntries = <<>>
            /\ chat[r].contextText.placeholder
            /\ chat[r].hitsUpd = "none"
            /\ chat[r].pc \in {"model", "done"}
            /\ chat[r].pc = "done" => chat[r].modelRes # "none"
            /\ chat[r].modelRes = "ok" =>
                    chat[r].resp = JsonAnswer(chat[r].modelText, <<>>)

\* C4 witness: a request whose store query failed was answered 200 with no
\* sources.
C4_Witness ==
    \E r \in ReqIds :
        /\ chat[r].dbFailed
        /\ chat[r].queries = 1
        /\ chat[r].resp.status = 200
        /\ chat[r].resp.sources = <<>>

\* C5: when the model call fails, the request ends with a 500 response that
\* carries only the generic message: no answer, no sources, not the
\* provider's error detail, whatever was retrieved.
C5_ModelFailureIs500 ==
    \A r \in ReqIds :
        chat[r].modelRes = "fail" =>
            /\ chat[r].pc = "done"
            /\ chat[r].resp.status = 500
            /\ chat[r].resp.kind = "error"
            /\ chat[r].resp.error = MsgAiFailed
            /\ chat[r].resp.error # ProviderDetail
            /\ chat[r].resp.answer = ""
            /\ chat[r].resp.sources = <<>>

\* C5 witness: the model call of a request that had retrieved entries failed.
C5_Witness ==
    \E r \in ReqIds :
        /\ chat[r].modelRes = "fail"
        /\ Len(chat[r].contextEntries) > 0
        /\ chat[r].resp.status = 500

\* A question that is a non-empty string, as the claims speak of it.
ValidQuestion(q) == q.t = "string" /\ Len(q.s) > 0

\* C6: without a model credential, every chat request with a valid question
\* is answered 500 "not configured" before any store query, hits update or
\* model call.
C6_NotConfiguredRejected ==
    ~apiKey =>
        \A r \in ReqIds :
            (chat[r].pc # "idle" /\ ValidQuestion(chat[r].question)) =>
                /\ chat[r].pc = "done"
                /\ chat[r].resp = JsonError(500, MsgNotConfigured)
                /\ chat[r].queries = 0
                /\ chat[r].hitsUpd = "none"
                /\ chat[r].modelRes = "none"

\* C7: a chat request whose question is missing, empty or not a string is
\* answered 400 at once, with no retrieval query, no hits update and no model
\* call, and the step that handles it leaves the store unchanged.
C7_InvalidQuestion400 ==
    /\ [](\A r \in ReqIds :
            (chat[r].pc # "idle" /\ ~ValidQuestion(chat[r].question)) =>
                /\ chat[r].pc = "done"
                /\ chat[r].resp = JsonError(400, MsgQuestionRequired)
                /\ chat[r].queries = 0
                /\ chat[r].hitsUpd = "none"
                /\ chat[r].modelRes = "none")
    /\ [][\A r \in ReqIds :
            (chat'[r] # chat[r] /\ ~ValidQuestion(chat'[r].question)) =>
                store' = store]_vars

\* C7 witness: requests with a missing, an empty and a non-string question
\* were answered 400.
C7_Witness ==
    \E r \in ReqIds :
        /\ chat[r].resp.status = 400
        /\ chat[r].question = Num(5)
        /\ \E r2 \in ReqIds :
                chat[r2].resp.status = 400 /\ chat[r2].question \in {Undefined, Str(<<>>)}

\* C8: a successful chat response carries the model's text unchanged as its
\* answer and exactly the entries findRelevantContext returned, in retrieval
\* order, as its sources.
C8_AnswerAndSources ==
    \A r \in ReqIds :
        chat[r].resp.status = 200 =>
            /\ chat[r].modelRes = "ok"
            /\ chat[r].modelText \in ModelTexts
            /\ chat[r].resp.answer = chat[r].modelText
            /\ chat[r].resp.sources = chat[r].contextEntries

\* C8 witness: a successful response with two sources.
C8_Witness ==
    \E r \in ReqIds :
        /\ chat[r].resp.status = 200
        /\ Len(chat[r].resp.sources) = 2
        /\ chat[r].resp.sources[1] # chat[r].resp.sources[2]

\* A text that is empty or made of whitespace only.
Blank(s) == \A i \in 1..Len(s) : s[i] = Sp

\* Largest maxResults argument tried.
MaxResultsArg == 4

\* C9: findRelevantContext called with an empty or whitespace-only question
\* returns the empty list without any store access, for any maxResults and
\* whatever the database would have answered; a chat request with such a
\* question issues no query and no hits update.
C9_BlankQuestionNoAccess ==
    /\ \A q \in {<<>>, <<Sp>>, <<Sp, Sp>>} : \A n \in 0..MaxResultsArg :
            \A db \in DbAnswers(revision, store, q, n) :
                LET ctx == findRelevantContext(revision, q, n, db)
                IN  ctx.rows = <<>> /\ ~ctx.accessed /\ ~ctx.raised
    /\ \A r \in ReqIds :
            (chat[r].pc \in {"hits", "model"} \/ chat[r].modelRes # "none")
                /\ Blank(chat[r].question.s)
            => chat[r].queries = 0 /\ chat[r].contextEntries = <<>>
                    /\ chat[r].hitsUpd = "none"

\* C9 witness: a chat request with a whitespace-only question reached the
\* model call without a store access.
C9_Witness ==
    \E r \in ReqIds :
        /\ chat[r].question = Str(<<Sp>>)
        /\ chat[r].modelRes = "ok"
        /\ chat[r].queries = 0

\* Row a may stand before row b in the ranking of the claims: relevance
\* descending, then net likes descending, then hits descending.
C10_Before(a, b) ==
    \/ FracGT(a.relevance, b.relevance)
    \/ /\ FracEQ(a.relevance, b.relevance)
       /\ \/ NetLikes(a) > NetLikes(b)
          \/ NetLikes(a) = NetLikes(b) /\ a.hits >= b.hits

HitsChanged ==
    {id \in DOMAIN store \cap DOMAIN store' : store'[id].hits # store[id].hits}

\* C11: the list returned by findRelevantContext is never longer than
\* maxResults (3 by default): no chat request holds more than 3 retrieved
\* entries, no chat response carries more than 3 sources, and no step of a
\* chat request increments the hits of more than 3 entries.
C11_AtMostMaxResults ==
    /\ [](/\ \A q \in {<<"a">>} : \A n \in 0..MaxResultsArg :
                \A db \in DbAnswers(revision, store, q, n) :
                    Len(findRelevantContext(revision, q, n, db).rows) <= n
          /\ \A r \in ReqIds :
                /\ Len(chat[r].contextEntries) <= DefaultMaxResults
                /\ Len(chat[r].resp.sources) <= DefaultMaxResults)
    /\ [][chat' # chat => Cardinality(HitsChanged) <= DefaultMaxResults]_vars

\* C11 witness: more than 3 entries of the table match the question of a chat
\* request, which retrieved 3 of them and whose hits update was applied.
C11_Witness ==
    \E r \in ReqIds :
        /\ Len(chat[r].contextEntries) = DefaultMaxResults
        /\ chat[r].hitsUpd = "applied"
        /\ Cardinality({id \in DOMAIN store :
                WhereRelevant(revision, store[id], chat[r].question.s)})
              > DefaultMaxResults

\* The step serves a request of kind op for entry id and answers it status.
Served(op, id, status) ==
    opCount' = opCount + 1 /\ lastResp' = OpResp(op, id, status)

\* C12: every step changes the likes of an existing entry by exactly the
\* number of like calls for it that the step serves (one or none), and the
\* dislikes by the number of dislike calls, whatever other requests are in
\* flight: n like calls add exactly n.  A like or dislike call leaves the two
\* other counters of the entry unchanged.
C12_FeedbackExact ==
    [][\A id \in DOMAIN store \cap DOMAIN store' :
        LET liked == Served("like", id, 200)
            disliked == Served("dislike", id, 200)
        IN  /\ store'[id].likes = store[id].likes + (IF liked THEN 1 ELSE 0)
            /\ store'[id].dislikes = store[id].dislikes + (IF disliked THEN 1 ELSE 0)
            /\ liked \/ disliked => store'[id].hits = store[id].hits]_vars

\* C12 witness: two like calls for the first seed entry, interleaved with a
\* chat request that incremented its hits.
C12_Witness ==
    /\ 1 \in DOMAIN store
    /\ store[1].likes = SeedStore[1].likes + 2
    /\ store[1].dislikes = SeedStore[1].dislikes
    /\ store[1].hits = SeedStore[1].hits + 1
    /\ opCount = 2

\* C13: a like or dislike request for an id that is not in the store is
\* answered 404 (500 when the database fails), never 200, and leaves the store
\* unchanged.
C13_FeedbackUnknownId404 ==
    [][\A id \in Ids \ DOMAIN store :
        opCount' = opCount + 1 /\ lastResp'.op \in {"like", "dislike"}
                /\ lastResp'.id = id
            => lastResp'.status \in {404, 500} /\ store' = store]_vars

\* The counters of a row.
Counters(row) == <<row.likes, row.dislikes, row.hits>>

\* C14: an update never changes likes, dislikes or hits of any entry: the
\* UPDATE of the handler, for any body that passes validation (with or without
\* counters in it), leaves the counters of every row as they are in the table
\* at that moment, and a step that serves PUT /api/knowledge-base/:id leaves
\* every entry in the table with its counters.
C14_UpdateKeepsCounters ==
    /\ [](\A id \in DOMAIN store : \A body \in Bodies :
            ~FieldsMissing(body) =>
                \A i \in DOMAIN store :
                    Counters(UpdateEntry(store, id, body)[i]) = Counters(store[i]))
    /\ [][opCount' = opCount + 1 /\ lastResp'.op = "update" =>
            /\ DOMAIN store' = DOMAIN store
            /\ \A i \in DOMAIN store : Counters(store'[i]) = Counters(store[i])]_vars

\* C14 witness: an update of the first seed entry was served after a like and
\* a hits increment of it: its content is new and its counters are not those
\* of the seed, nor those a body may carry.
C14_Witness ==
    /\ lastResp = OpResp("update", 1, 200)
    /\ 1 \in DOMAIN store
    /\ store[1].question # SeedStore[1].question
    /\ store[1].likes = SeedStore[1].likes + 1
    /\ store[1].hits = SeedStore[1].hits + 1

\* C15: in every reachable state the likes, dislikes and hits of every entry
\* of the table are non-negative, and no step (create, update, like, dislike,
\* list, or a step of a chat request) decreases a counter of an entry that is
\* in the table before and after it.
C15_CountersMonotone ==
    /\ [](\A id \in DOMAIN store :
            store[id].likes >= 0 /\ store[id].dislikes >= 0 /\ store[id].hits >= 0)
    /\ [][\A id \in DOMAIN store \cap DOMAIN store' :
            /\ store'[id].likes >= store[id].likes
            /\ store'[id].dislikes >= store[id].dislikes
            /\ store'[id].hits >= store[id].hits]_vars

\* C15 witness: the first seed entry after a like, a dislike and a hits
\* increment: each of its counters has grown.
C15_Witness ==
    /\ 1 \in DOMAIN store
    /\ store[1].likes > SeedStore[1].likes
    /\ store[1].dislikes > SeedStore[1].dislikes
    /\ store[1].hits > SeedStore[1].hits

\* The chat requests that retrieved entry id.
RetrievedBy(id) == {r \in ReqIds : id \in EntryIds(chat[r].contextEntries)}

\* C16: a successful create makes an entry whose id is generated by the
\* server (from its clock, not from the body) and whose likes, dislikes and
\* hits are 0, whatever id and counters the body carries; a list call that
\* follows the create (no other knowledge-base request in between, and no
\* chat request having retrieved the new entry) contains that entry, with
\* that id and the three counters at 0.
C16_CreateThenList ==
    /\ [](\A body \in Bodies : \A t \in Ids :
            LET after == InsertEntry(revision, store, t, body)
            IN  ~FieldsMissing(body) /\ after.ok =>
                    /\ DOMAIN after.store = DOMAIN store \cup {t}
                    /\ after.store[t].id = t
                    /\ Counters(after.store[t]) = <<0, 0, 0>>)
    /\ [][opCount' = opCount + 1 /\ lastResp'.op = "create" /\ lastResp'.status = 201 =>
            /\ lastResp'.id = now'
            /\ lastResp'.id \in DOMAIN store' \ DOMAIN store
            /\ store'[lastResp'.id].id = lastResp'.id
            /\ Counters(store'[lastResp'.id]) = <<0, 0, 0>>]_vars
    /\ [][lastResp.op = "create" /\ lastResp.status = 201
                /\ Served("list", 0, 200) /\ RetrievedBy(lastResp.id) = {} =>
            \E i \in 1..Len(listResp'.rows) :
                /\ listResp'.rows[i].id = lastResp.id
                /\ Counters(listResp'.rows[i]) = <<0, 0, 0>>]_vars

\* C16 witness: a list call served after a create shows the created entry,
\* with an id no seed entry has, and its counters at 0.
C16_Witness ==
    /\ lastResp = OpResp("list", 0, 200)
    /\ opCount = 2
    /\ \E i \in 1..Len(listResp.rows) :
            /\ listResp.rows[i].id \notin DOMAIN SeedStore
            /\ Counters(listResp.rows[i]) = <<0, 0, 0>>

\* C17: no two entries share an id: every row of the table carries the id it
\* is stored under, a list response never shows an id twice, and a create
\* that is answered 201 adds a row under an id no row had and replaces none.
\* No step changes the id of an entry that is in the table before and after
\* it, and only create and delete change which ids the table holds.
C17_IdUnique ==
    /\ [](/\ \A id \in DOMAIN store : store[id].id = id
          /\ \A i, j \in 1..Len(listResp.rows) :
                i # j => listResp.rows[i].id # listResp.rows[j].id)
    /\ [][/\ \A id \in DOMAIN store \cap DOMAIN store' : store'[id].id = store[id].id
          /\ opCount' = opCount + 1 /\ lastResp'.op = "create" /\ lastResp'.status = 201 =>
                /\ lastResp'.id \notin DOMAIN store
                /\ \A id \in DOMAIN store : id \in DOMAIN store' /\ store'[id] = store[id]
          /\ ~(opCount' = opCount + 1 /\ lastResp'.op \in {"create", "delete"}) =>
                DOMAIN store' = DOMAIN store]_vars

\* C17 witness: an entry was created and then updated: the table holds it
\* beside the two seed entries, under the id it was created with.
C17_Witness ==
    /\ lastResp.op = "update" /\ lastResp.status = 200
    /\ lastResp.id \notin DOMAIN SeedStore
    /\ DOMAIN store = DOMAIN SeedStore \cup {lastResp.id}
    /\ store[lastResp.id].id = lastResp.id

\* The ids of the rows of a list response.
ListedIds(resp) == {resp.rows[i].id : i \in 1..Len(resp.rows)}

\* C18: a delete answered 204 removes the entry from the table and leaves the
\* other rows as they are; a list call shows the ids of the table and no
\* other, so that it does not contain a deleted entry, in particular when it
\* follows the delete; a delete of an id that is not in the table (a second
\* delete of the same id) is answered 404 (500 when the database fails) and
\* leaves the store unchanged.
C18_DeleteThenGone ==
    [][/\ \A id \in Ids :
            opCount' = opCount + 1 /\ lastResp'.op = "delete" /\ lastResp'.id = id =>
                IF lastResp'.status = 204
                THEN /\ id \in DOMAIN store
                     /\ DOMAIN store' = DOMAIN store \ {id}
                     /\ \A i \in DOMAIN store' : store'[i] = store[i]
                ELSE /\ store' = store
                     /\ id \notin DOMAIN store => lastResp'.status \in {404, 500}
                     /\ lastResp = OpResp("delete", id, 204) => lastResp'.status \in {404, 500}
       /\ Served("list", 0, 200) =>
            /\ ListedIds(listResp') = DOMAIN store
            /\ lastResp.op = "delete" /\ lastResp.status = 204 =>
                    lastResp.id \notin ListedIds(listResp')]_vars

\* C18 witness: the first seed entry was deleted, and a second delete of its
\* id was answered 404.
C18_Witness ==
    /\ lastResp = OpResp("delete", 1, 404)
    /\ opCount = 2
    /\ 1 \notin DOMAIN store

\* C19: an update whose fields pass validation, for an id that is not in the
\* table, is answered 404 (500 when the database fails): it creates no entry
\* and leaves every entry unchanged.
C19_UpdateUnknownId404 ==
    /\ [](\A id \in Ids \ DOMAIN store : \A body \in Bodies :
            ~FieldsMissing(body) => UpdateEntry(store, id, body) = store)
    /\ [][\A id \in Ids \ DOMAIN store :
            opCount' = opCount + 1 /\ lastResp'.op = "update" /\ lastResp'.id = id
                    /\ lastResp'.status # 400
                => lastResp'.status \in {404, 500} /\ store' = store]_vars

\* C19 witness: an update with valid fields for an id the table does not
\* hold was answered 404.
C19_Witness ==
    \E id \in Ids \ DOMAIN store :
        /\ lastResp = OpResp("update", id, 404)
        /\ store = SeedStore

\* A field of a body that is missing or empty.
Absent(v) == v = Undefined \/ v = Str(<<>>)

\* A body in which question, answer, type or system is missing or empty.
LacksRequired(body) ==
    Absent(body.question) \/ Absent(body.answer) \/ Absent(body.type)
        \/ Absent(body.system)

\* The bodies tried in which a required field is missing or empty.
LackingBodies == {b \in Bodies : LacksRequired(b)}

\* C20: a create or update request in whose body question, answer, type or
\* system is missing or empty is answered 400 and does not reach the store:
\* the table is unchanged, and the create has not read the clock for an id.
C20_MissingFields400 ==
    [][/\ opCount' = opCount + 1 /\ lastResp'.op = "create" =>
            \A body \in LackingBodies : \A dbOk \in BOOLEAN, t \in Ids :
                CreateEntry(body, dbOk, t) =>
                    lastResp'.status = 400 /\ store' = store /\ now' = now
       /\ opCount' = opCount + 1 /\ lastResp'.op = "update" =>
            \A body \in LackingBodies : \A dbOk \in BOOLEAN :
                PutEntry(lastResp'.id, body, dbOk) =>
                    lastResp'.status = 400 /\ store' = store]_vars

\* C20 witness: an update of the first seed entry was answered 400 and the
\* table still is the seed's.
C20_Witness ==
    /\ lastResp = OpResp("update", 1, 400)
    /\ store = SeedStore

\* C21: in every reachable state the question and the answer of every entry
\* of the table are non-empty after trimming.
C21_StoredTextNotBlank ==
    \A id \in DOMAIN store :
        Trim(store[id].question) # <<>> /\ Trim(store[id].answer) # <<>>

\* C22: a list response shows no entry twice and is ordered by net likes
\* (likes - dislikes) descending and, among equal net likes, by hits
\* descending.
C22_ListRanking ==
    listResp.status = 200 =>
        \A i, j \in 1..Len(listResp.rows) :
            i < j =>
                /\ listResp.rows[i].id # listResp.rows[j].id
                /\ \/ NetLikes(listResp.rows[i]) > NetLikes(listResp.rows[j])
                   \/ /\ NetLikes(listResp.rows[i]) = NetLikes(listResp.rows[j])
                      /\ listResp.rows[i].hits >= listResp.rows[j].hits

\* C25: the hits update of a chat request is issued before the model is
\* called: a request that retrieved entries and has reached the model call
\* has an update issued, a failing model call neither cancels nor undoes it,
\* and once the update is applied the retrieved entries still in the table
\* have their hits incremented although the request was answered 500; an
\* update still pending when the model call failed is eventually run by the
\* database, or fails there.
C25_HitsBeforeModel ==
    /\ [](\A r \in ReqIds :
            /\ (chat[r].pc = "model" \/ chat[r].modelRes # "none")
                    /\ chat[r].contextEntries # <<>>
                => chat[r].hitsUpd # "none"
            /\ chat[r].modelRes = "fail" =>
                /\ chat[r].resp = JsonError(500, MsgAiFailed)
                /\ chat[r].hitsUpd = "applied" =>
                    \A e \in Rows(chat[r].contextEntries) :
                        e.id \in DOMAIN store => store[e.id].hits >= e.hits + 1)
    /\ \A r \in ReqIds :
            (chat[r].modelRes = "fail" /\ chat[r].hitsUpd = "pending")
                ~> (chat[r].hitsUpd \in {"applied", "failed"})

\* C25 witness: a request answered 500 after its model call failed, whose
\* hits update was applied: a retrieved entry has one hit more than retrieved.
C25_Witness ==
    \E r \in ReqIds :
        /\ chat[r].resp.status = 500
        /\ chat[r].modelRes = "fail"
        /\ chat[r].hitsUpd = "applied"
        /\ \E e \in Rows(chat[r].contextEntries) :
                e.id \in DOMAIN store /\ store[e.id].hits = e.hits + 1

\* C26: when the hits update of a chat request runs after an entry the
\* request retrieved was deleted, it matches no row for that entry: the table
\* holds the same ids after the update as before, rows the request did not
\* retrieve are unchanged, and when every retrieved entry is gone no row
\* changes at all.  A list call shows the ids of the table only, so the entry
\* stays absent, while the response of the request still names it in sources.
C26_LateUpdateNoResurrect ==
    /\ [][\A r \in ReqIds :
            chat[r].hitsUpd = "pending" /\ chat'[r].hitsUpd = "applied" =>
                LET ids == EntryIds(chat[r].contextEntries)
                IN  /\ DOMAIN store' = DOMAIN store
                    /\ \A id \in DOMAIN store \ ids : store'[id] = store[id]
                    /\ ids \cap DOMAIN store = {} => store' = store]_vars
    /\ [][Served("list", 0, 200) => ListedIds(listResp') = DOMAIN store']_vars
    /\ [](\A r \in ReqIds :
            chat[r].resp.status = 200 => chat[r].resp.sources = chat[r].contextEntries)

\* C26 witness: a request retrieved an entry, the entry was deleted, a list
\* call did not show it, and then the request's hits update ran: the entry is
\* not in the table and the response names it.
C26_Witness ==
    \E r \in ReqIds :
        /\ chat[r].hitsUpd = "applied"
        /\ chat[r].resp.status = 200
        /\ listResp.status = 200
        /\ r \notin listResp.applied
        /\ \E e \in Rows(chat[r].resp.sources) :
                e.id \notin ListedIds(listResp) /\ e.id \notin DOMAIN store

\* C27: in the revisions that derive the id from the creation timestamp
\* (1 and 3), every create request with valid fields that the database
\* serves is answered 201 and adds a row under a new id, leaving the other
\* rows as they are, also when the clock has not advanced since the last
\* create.
C27_CreateAlways201 ==
    [][revision # 2 /\ opCount' = opCount + 1 /\ lastResp'.op = "create" =>
        \A body \in Bodies : \A t \in Ids :
            ~FieldsMissing(body) /\ CreateEntry(body, TRUE, t) =>
                /\ lastResp'.status = 201
                /\ lastResp'.id \notin DOMAIN store
                /\ DOMAIN store' = DOMAIN store \cup {lastResp'.id}
                /\ \A id \in DOMAIN store : store'[id] = store[id]]_vars

\* C24: normalizePersian is idempotent: applied to its own result it returns
\* that result; and a null, undefined or empty argument gives the empty
\* string.
C24_NormalizeIdempotent ==
    /\ Len(passes) >= 2 => passes[2] = passes[1]
    /\ Len(passes) >= 1 /\ scriptText \in {Undefined, Null, Str(<<>>)} => passes[1] = <<>>

\* C24 witness: a text with an Arabic Yeh, a zero-width non-joiner next to a
\* whitespace character, normalized twice: the first pass changed it.
C24_Witness ==
    /\ Len(passes) = 2
    /\ scriptText = Str(<<ArabicYeh, Tab, Zwnj>>)
    /\ passes[1] = <<PersianYeh>>

\* The positions of the bot messages that answer request req, and of its user
\* message.
BotMessagesFor(req) ==
    {i \in DOMAIN messages : messages[i].author = "bot" /\ messages[i].req = req}

UserMessagesFor(req) ==
    {i \in DOMAIN messages : messages[i].author = "user" /\ messages[i].req = req}

Pending(req) == \E q \in inFlight : q.req = req

\* Every submitted user message is in the list once; while its request is in
\* flight no bot message answers it, afterwards exactly one does, which comes
\* after it and is of one of the kinds given.
OneBotMessageEach(kinds) ==
    \A req \in 1..sent :
        /\ Cardinality(UserMessagesFor(req)) = 1
        /\ Cardinality(BotMessagesFor(req)) = IF Pending(req) THEN 0 ELSE 1
        /\ \A i \in BotMessagesFor(req) :
                /\ \A j \in UserMessagesFor(req) : j < i
                /\ messages[i].kind \in kinds

\* Every submitted user message is eventually answered, and the loading flag
\* eventually is false again.
EventuallyAnswered ==
    /\ \A req \in 1..MaxSends :
            (sent >= req) ~> (sent >= req /\ ~Pending(req)
                                /\ Cardinality(BotMessagesFor(req)) = 1)
    /\ isLoading ~> ~isLoading

\* C28: every submitted user message is eventually followed by exactly one
\* bot message, which is either the server's answer or the fixed
\* connection-error message, whatever the outcome of the request; and the
\* loading flag eventually returns to false.
C28_OneBotMessage ==
    /\ []OneBotMessageEach({"answer", "connError"})
    /\ EventuallyAnswered

\* C28 (amended): the bot message is the server's answer, the fixed
\* connection-error message, or the fixed "no answer received" message that
\* stands for a missing or empty answer of a 200 response.
C28_OneBotMessageOfThree ==
    /\ []OneBotMessageEach({"answer", "fallback", "connError"})
    /\ EventuallyAnswered

\* C28 witness: two user messages were submitted and both requests have
\* settled, one with an answer and one in the catch block.
C28_Witness ==
    /\ sent = 2
    /\ inFlight = {}
    /\ ~isLoading
    /\ \E i, j \in DOMAIN messages :
            messages[i].kind = "answer" /\ messages[j].kind = "connError"

\* C29: at most one /api/chat request of the chat client is in flight at any
\* time, and user and bot messages alternate in the message list (which
\* starts with the bot's greeting).
C29_OneInFlight ==
    /\ Cardinality(inFlight) <= 1
    /\ \A i \in 1..(Len(messages) - 1) : messages[i].author # messages[i + 1].author

\* A request of the manager whose fetch settles in this step.
KbSettled(q) == q \in kbRequests /\ q \notin kbRequests'

\* C23: whenever fetchEntries receives a successful response, the order in
\* which KnowledgeBaseManager keeps (and shows) the entries equals the order
\* of the rows in the GET /api/knowledge-base response.
C23_ListOrderAsServed ==
    [][(/\ \E q \in kbRequests : q.kind = "fetch" /\ KbSettled(q)
        /\ lastResp' = OpResp("list", 0, 200))
            => entries' = listResp'.rows]_vars

\* The ids shown before this step and not after it.
KbRemoved == EntryIds(entries) \ EntryIds(entries')

\* Entries leave the list, and the form closes after a save, only on the
\* server's success; a failed request leaves the entries alone and sets the
\* error; the error is never cleared.
KbAfterSuccessOnly ==
    /\ \A id \in KbRemoved :
            \/ /\ lastResp' = OpResp("delete", id, 204)
               /\ \E q \in kbRequests : q.kind = "delete" /\ q.id = id /\ KbSettled(q)
            \/ /\ lastResp' = OpResp("list", 0, 200)
               /\ \E q \in kbRequests : q.kind = "fetch" /\ KbSettled(q)
    /\ (isFormVisible /\ ~isFormVisible' /\ kbRequests' # kbRequests)
            => \E q \in kbRequests : q.kind = "fetch" /\ q.next = "close" /\ KbSettled(q)
    /\ (\E q \in kbRequests' \ kbRequests : q.next = "close")
            => /\ lastResp'.op \in {"create", "update"}
               /\ ResOk(lastResp'.status)
    /\ ((\E q \in kbRequests : KbSettled(q)) /\ ~ResOk(lastResp'.status))
            => /\ entries' = entries
               /\ kbError' # ""
    /\ kbError # "" => kbError' # ""

\* C30 (as stated): entries are removed and the form is closed after a save
\* only after the server reported success; a failed fetch, save or delete
\* leaves the entries unchanged and sets the error; the error is never cleared
\* and from then on the component shows only the error.
C30_ErrorShownForGood ==
    [][KbAfterSuccessOnly /\ (kbError' # "" => ManagerView' = "error")]_vars

\* C30 (amended): as above, except that once the error is set the component
\* shows the error or, while a fetchEntries call is in flight, the loading
\* indicator; it never shows the entries list again.
C30_ErrorOrLoadingForGood ==
    [][KbAfterSuccessOnly /\ (kbError' # "" => ManagerView' \in {"error", "loading"})]_vars

C30_Witness ==
    /\ kbError = "Failed to delete entry."
    /\ lastResp.op = "delete"
    /\ ~ResOk(lastResp.status)
    /\ kbIsLoading
    /\ Len(entries) = 2

====
